---- MODULE Spec2Model ----
(***************************************************************************)
(* Model of src/Meta5_buy.py: an e-mail driven trading bot.  run_bot logs  *)
(* in to the platform and then polls the mailbox; every message whose body *)
(* contains the marker makes place_order close the tracked position and    *)
(* open a new one in the direction opposite to the last filled one.        *)
(*                                                                         *)
(* The program is sequential; pc is the position of its single thread.     *)
(* The mail server and the trading platform are the environment: mail      *)
(* arrives, positions may be closed by the broker, and every platform call *)
(* returns one of the results the MetaTrader5 binding can return.          *)
(***************************************************************************)
EXTENDS Integers, Sequences, FiniteSets, TLC

VARIABLES
    pc,          \* position of the thread in run_bot
    last_trade,  \* global last_trade  (line 24)
    last_ticket, \* global last_ticket (line 25)
    email_body,  \* local of run_bot: the value check_email returned
    signal,      \* local of run_bot
    action,      \* local of run_bot: the direction handed to place_order
    inbox,       \* the mailbox on the server: sequence of [body, seen], with
                 \* returned, history: how often check_email returned the body
    positions,   \* the platform's open positions: ticket -> [type, volume]
    nextTicket,  \* the ticket the platform gives to the next filled order
    ticks,       \* number of loop iterations started
    orders,      \* history: every request handed to mt5.order_send
    calls,       \* history: functions run_bot called in the current tick
    tickStart,   \* history: <<last_trade, last_ticket>> when the tick began
    pre,         \* history: <<last_trade, last_ticket>> when place_order began
    mailCase,    \* history: what check_email met in the current tick
    closePath,   \* history: the path close_last_trade took in the current tick
    mt5ok,       \* history: how connect_mt5 ended
    mailConns,   \* history: connections the latest check_email opened and
                 \* returned without a logout
    nPlace       \* history: number of calls of place_order

vars == <<pc, last_trade, last_ticket, email_body, signal, action, inbox,
          positions, nextTicket, ticks, orders, calls, tickStart, pre,
          mailCase, closePath, mt5ok, mailConns, nPlace>>

\* ----------------------------------------------------------------- bounds
MaxTicks == 3
MaxMail == 3
MaxPad == 2

\* -------------------------------------------------------------- constants
None == "None"
NoTicket == 0
BUY == "BUY"
SELL == "SELL"
DONE == "DONE"
Retcodes == {DONE, "REJECT", "REQUOTE", "TIMEOUT"}
OrderResults == Retcodes \cup {None}
LOT_SIZE == 2
Quotes == {[bid |-> 10, ask |-> 11]}
NoQuote == [bid |-> 0, ask |-> 0]
Marker == <<"C", "r", "o", "s", "s", "i", "n", "g">>
Bodies == { << >>,
            <<"C", "r", "o", "s", "s", "i", "n", "g">>,
            <<"c", "r", "o", "s", "s", "i", "n", "g">> }
NoBody == [isNone |-> TRUE, body |-> << >>]
SomeBody(b) == [isNone |-> FALSE, body |-> b]

\* ------------------------------------------------------------ mail reader
\* indices of the messages mail.search(None, 'UNSEEN') returns, ascending
Unseen(box) == {i \in 1..Len(box) : ~box[i].seen}

SetMax(S) == CHOOSE m \in S : \A x \in S : x <= m

SetMin(S) == CHOOSE m \in S : \A x \in S : m <= x

\* the oldest unseen message: messages[0].split()[0]
EarliestUnseen(box) == SetMin(Unseen(box))

\* messages[0].split()[-1]
LatestUnseen(box) == SetMax(Unseen(box))

\* a store command that does not set the flag
MarkSeenNot(box, i) == box

\* line 66: +FLAGS \Seen on the fetched message
MarkSeen(box, i) == [box EXCEPT ![i].seen = TRUE]

\* ------------------------------------------------------- signal extractor
Lower(c) == IF c = "C" THEN "c" ELSE c

\* a marker test that looks at the start of the body only
extract_signal_at_start(b) ==
    Len(b) >= Len(Marker) /\ SubSeq(b, 1, Len(Marker)) = Marker

\* a marker test that ignores the case of the letters
extract_signal_ignoring_case(b) ==
    \E i \in 1..(Len(b) - Len(Marker) + 1) :
        \A k \in 1..Len(Marker) : Lower(b[i + k - 1]) = Lower(Marker[k])

\* "Crossing" in email_body
extract_signal_from_email(b) ==
    \E i \in 1..(Len(b) - Len(Marker) + 1) :
        SubSeq(b, i, i + Len(Marker) - 1) = Marker

\* a direction choice that repeats BUY after a BUY
NextActionSameSide(lt) == IF lt = None \/ lt = BUY THEN BUY ELSE SELL

\* lines 178-181
NextAction(lt) == IF lt = None \/ lt = SELL THEN BUY ELSE SELL

\* ------------------------------------------------------------------ state
Init ==
    /\ pc = "connect"
    /\ last_trade = None
    /\ last_ticket = NoTicket
    /\ email_body = NoBody
    /\ signal = FALSE
    /\ action = None
    /\ inbox = << >>
    /\ positions = << >>
    /\ nextTicket = 1
    /\ ticks = 0
    /\ orders = << >>
    /\ calls = {}
    /\ tickStart = <<None, NoTicket>>
    /\ pre = <<None, NoTicket>>
    /\ mailCase = "idle"
    /\ closePath = "idle"
    /\ mt5ok = "pending"
    /\ mailConns = 0
    /\ nPlace = 0

\* ------------------------------------------------------------ environment
\* a message is delivered to the inbox
Arrive ==
    /\ Len(inbox) < MaxMail
    /\ \E b \in Bodies : inbox' = Append(inbox, [body |-> b, seen |-> FALSE, returned |-> 0])
    /\ UNCHANGED <<pc, last_trade, last_ticket, email_body, signal, action,
                   positions, nextTicket, ticks, orders, calls, tickStart, pre,
                   mailCase, closePath, mt5ok, mailConns, nPlace>>

\* the broker (stop-out) or the account owner closes the tracked position (a
\* position the program tracks no longer is never read by it again)
ExternalClose ==
    /\ \E t \in DOMAIN positions \cap {last_ticket} :
         positions' = [u \in DOMAIN positions \ {t} |-> positions[u]]
    /\ UNCHANGED <<pc, last_trade, last_ticket, email_body, signal, action,
                   inbox, nextTicket, ticks, orders, calls, tickStart, pre,
                   mailCase, closePath, mt5ok, mailConns, nPlace>>

\* the account owner closes a part of the tracked position in the terminal
ExternalReduce ==
    /\ \E t \in DOMAIN positions \cap {last_ticket} :
         /\ positions[t].volume > 1
         /\ positions' = [positions EXCEPT ![t].volume = @ - 1]
    /\ UNCHANGED <<pc, last_trade, last_ticket, email_body, signal, action,
                   inbox, nextTicket, ticks, orders, calls, tickStart, pre,
                   mailCase, closePath, mt5ok, mailConns, nPlace>>

\* ---------------------------------------------------------------- run_bot
\* a connect that does not look at the result of mt5.login
connect_mt5_unchecked_login(initialized, authorized) == initialized

\* lines 28-38: the value connect_mt5 returns
connect_mt5(initialized, authorized) == initialized /\ authorized

\* the call of connect_mt5 and lines 164-168: run_bot returns when it failed
Connect ==
    /\ pc = "connect"
    /\ \E initialized \in BOOLEAN, authorized \in BOOLEAN :
         /\ pc' = IF connect_mt5(initialized, authorized) THEN "fetch" ELSE "exit"
         /\ mt5ok' = IF ~initialized THEN "init_failed"
                     ELSE IF ~authorized THEN "login_failed" ELSE "connected"
    /\ UNCHANGED <<last_trade, last_ticket, email_body, signal, action, inbox,
                   positions, nextTicket, ticks, orders, calls, tickStart, pre,
                   mailCase, closePath, mailConns, nPlace>>

\* lines 67-74: mail.logout() is called on the path of line 69 only; a
\* connection opened on another path is left without a logout (1 = left open)
Leaked(path, opened) == IF opened /\ path # "empty" THEN 1 ELSE 0

\* check_email, called at line 171.  failure: the stage at which imaplib
\* raises, if any ("early": connect, login, select or search; "late": decoding
\* the fetched message or the store command; the fetch of RFC822 may by then
\* have set the \Seen flag on the server).
check_email ==
    /\ pc = "fetch"
    /\ ticks < MaxTicks
    /\ ticks' = ticks + 1
    /\ calls' = {"check_email"}
    /\ tickStart' = <<last_trade, last_ticket>>
    /\ closePath' = "idle"
    /\ \E failure \in {"none", "early", "late"} :
         IF failure = "early"
         THEN /\ email_body' = NoBody
              /\ inbox' = inbox
              /\ mailCase' = "failed"
              /\ \E opened \in BOOLEAN :
                   \* IMAP4_SSL itself raised, or a later command did: line 72
                   mailConns' = Leaked("failed", opened)
         ELSE IF Unseen(inbox) = {}
         THEN /\ email_body' = NoBody
              /\ inbox' = inbox
              /\ mailCase' = "empty"
              /\ mailConns' = Leaked("empty", TRUE)
         ELSE IF failure = "late"
         THEN /\ email_body' = NoBody
              /\ mailConns' = Leaked("failed", TRUE)
              /\ \E fetchMarks \in BOOLEAN :
                   inbox' = IF fetchMarks
                            THEN MarkSeen(inbox, LatestUnseen(inbox))
                            ELSE inbox
              /\ mailCase' = "failed"
         ELSE /\ email_body' = SomeBody(inbox[LatestUnseen(inbox)].body)
              /\ inbox' = [MarkSeen(inbox, LatestUnseen(inbox))
                             EXCEPT ![LatestUnseen(inbox)].returned = @ + 1]
              /\ mailCase' = "body"
              /\ mailConns' = Leaked("body", TRUE)
    /\ pc' = "dispatch"
    /\ UNCHANGED <<last_trade, last_ticket, signal, action, positions,
                   nextTicket, orders, pre, mt5ok, nPlace>>

\* a loop that handles whatever check_email returned
TruthyUntested(eb) == TRUE

\* line 173: if email_body (None and the empty string are both false)
Truthy(eb) == ~eb.isNone /\ eb.body # << >>

\* lines 173-188: the truth test of the body, the extractor, the direction
Dispatch ==
    /\ pc = "dispatch"
    /\ IF Truthy(email_body)
       THEN /\ signal' = extract_signal_from_email(email_body.body)
            /\ IF signal'
               THEN /\ action' = NextAction(last_trade)
                    /\ calls' = calls \cup {"extract_signal_from_email", "place_order"}
                    /\ pre' = <<last_trade, last_ticket>>
                    /\ nPlace' = nPlace + 1
                    /\ pc' = "close"
               ELSE /\ calls' = calls \cup {"extract_signal_from_email"}
                    /\ pc' = "sleep"
                    /\ UNCHANGED <<action, pre, nPlace>>
       ELSE /\ pc' = "sleep"
            /\ UNCHANGED <<signal, action, calls, pre, nPlace>>
    /\ UNCHANGED <<last_trade, last_ticket, email_body, inbox, positions,
                   nextTicket, ticks, orders, tickStart, mailCase, closePath,
                   mt5ok, mailConns>>

\* one request handed to mt5.order_send, with the result it got: tracked is
\* last_ticket when the request was sent, order the ticket in the result
Request(kind, type, volume, position, price, result, order) ==
    [kind |-> kind, type |-> type, volume |-> volume, position |-> position,
     price |-> price, result |-> result, order |-> order,
     tracked |-> last_ticket, tick |-> ticks]

\* a close priced at the ask whatever the side of the position
ClosePriceAsk(ptype, q) == q.ask

\* line 96
ClosePrice(ptype, q) == IF ptype = BUY THEN q.bid ELSE q.ask

\* line 101
CloseType(ptype) == IF ptype = BUY THEN SELL ELSE BUY

\* a close taken as done whatever the retcode
CloseConfirmedAny(r) == TRUE

\* line 112
CloseConfirmed(r) == r = DONE

\* the absent branch without the assignment of line 93
TicketIfAbsentKept == last_ticket

\* line 93
TicketIfAbsent == NoTicket

\* line 114
TicketIfClosed == NoTicket

\* place_order going on whatever close_last_trade returned
AfterCloseIgnored(ok) == "open"

\* lines 126-127: place_order returns when close_last_trade returned False
AfterClose(ok) == IF ok THEN "open" ELSE "sleep"

\* close_last_trade, called at line 126, with the return at line 127
close_last_trade ==
    /\ pc = "close"
    /\ IF last_ticket = NoTicket
       THEN /\ pc' = AfterClose(TRUE)
            /\ closePath' = "untracked"
            /\ UNCHANGED <<last_ticket, positions, orders>>
       ELSE \E answered \in BOOLEAN :
            IF ~(answered /\ last_ticket \in DOMAIN positions)
            THEN \* positions_get gave an empty tuple, or None on an error
                 /\ last_ticket' = TicketIfAbsent
                 /\ pc' = AfterClose(TRUE)
                 /\ closePath' = "absent"
                 /\ UNCHANGED <<positions, orders>>
            ELSE \E q \in Quotes \cup {NoQuote} :
                 IF q = NoQuote
                 THEN \* symbol_info_tick gave None: line 96 raises
                      /\ pc' = "crashed"
                      /\ closePath' = "raised"
                      /\ UNCHANGED <<last_ticket, positions, orders>>
                 ELSE \E r \in OrderResults :
                      LET p == positions[last_ticket]
                          req == Request("close", CloseType(p.type), p.volume,
                                         last_ticket, ClosePrice(p.type, q),
                                         r, NoTicket)
                      IN /\ orders' = Append(orders, req)
                         \* the platform closes the position when it answers DONE
                         /\ positions' = IF r = DONE
                                         THEN [u \in DOMAIN positions \ {last_ticket}
                                                 |-> positions[u]]
                                         ELSE positions
                         /\ IF r = None
                            THEN \* line 112 raises on order_result.retcode
                                 /\ pc' = "crashed"
                                 /\ closePath' = "raised"
                                 /\ UNCHANGED last_ticket
                            ELSE IF CloseConfirmed(r)
                            THEN /\ last_ticket' = TicketIfClosed
                                 /\ pc' = AfterClose(TRUE)
                                 /\ closePath' = "filled"
                            ELSE /\ pc' = AfterClose(FALSE)
                                 /\ closePath' = "failed"
                                 /\ UNCHANGED last_ticket
    /\ UNCHANGED <<last_trade, email_body, signal, action, inbox, nextTicket,
                   ticks, calls, tickStart, pre, mailCase, mt5ok, mailConns, nPlace>>

\* line 129
OpenPrice(act, q) == IF act = BUY THEN q.ask ELSE q.bid

\* the globals assigned whatever the result of the open order
StateAfterOpenUnconditional(r, act, ord) == <<act, ord>>

\* a fill that stores the ticket and not the direction
StateAfterOpenTicketOnly(r, act, ord) ==
    IF r # None /\ r = DONE THEN <<last_trade, ord>> ELSE <<last_trade, last_ticket>>

\* lines 147-154: <<last_trade, last_ticket>> after the result r of the open
\* order, ord being order_result.order
StateAfterOpen(r, act, ord) ==
    IF r # None /\ r = DONE THEN <<act, ord>> ELSE <<last_trade, last_ticket>>

\* an open order sent again in the same call while it is not filled
AfterOpenRetry(r) ==
    IF r = DONE \/ Len(orders) >= 2 * MaxTicks THEN "sleep" ELSE "open"

\* lines 147-157: place_order sends one request and returns to line 190
AfterOpen(r) == "sleep"

\* place_order after a successful close: lines 129-157
place_order ==
    /\ pc = "open"
    /\ \E q \in Quotes \cup {NoQuote} :
         IF q = NoQuote
         THEN \* symbol_info_tick gave None: line 129 raises
              /\ pc' = "crashed"
              /\ UNCHANGED <<last_trade, last_ticket, positions, nextTicket, orders>>
         ELSE \E r \in OrderResults :
              LET ord == IF r = DONE THEN nextTicket ELSE NoTicket
                  req == Request("open", action, LOT_SIZE, NoTicket,
                                 OpenPrice(action, q), r, ord)
              IN /\ orders' = Append(orders, req)
                 /\ pc' = AfterOpen(r)
                 /\ last_trade' = StateAfterOpen(r, action, ord)[1]
                 /\ last_ticket' = StateAfterOpen(r, action, ord)[2]
                 /\ IF r = DONE
                    THEN \* the platform has opened the position
                         /\ positions' = [u \in DOMAIN positions \cup {nextTicket} |->
                                            IF u = nextTicket
                                            THEN [type |-> action, volume |-> LOT_SIZE]
                                            ELSE positions[u]]
                         /\ nextTicket' = nextTicket + 1
                    ELSE UNCHANGED <<positions, nextTicket>>
    /\ UNCHANGED <<email_body, signal, action, inbox, ticks, calls, tickStart, pre,
                   mailCase, closePath, mt5ok, mailConns, nPlace>>

\* time.sleep at line 190 and the jump back to line 170
Sleep ==
    /\ pc = "sleep"
    /\ pc' = "fetch"
    /\ UNCHANGED <<last_trade, last_ticket, email_body, signal, action, inbox,
                   positions, nextTicket, ticks, orders, calls, tickStart, pre,
                   mailCase, closePath, mt5ok, mailConns, nPlace>>

Next ==
    \/ Arrive
    \/ ExternalClose
    \/ ExternalReduce
    \/ Connect
    \/ check_email
    \/ Dispatch
    \/ close_last_trade
    \/ place_order
    \/ Sleep

Spec == Init /\ [][Next]_vars

\* ------------------------------------------------------------- properties
TypeOK ==
    /\ pc \in {"connect", "exit", "fetch", "dispatch", "close", "open", "sleep", "crashed"}
    /\ last_trade \in {None, BUY, SELL}
    /\ last_ticket \in 0..MaxTicks
    /\ ticks \in 0..MaxTicks
    /\ Len(orders) <= 2 * MaxTicks

IsOpen(o) == o.kind = "open"
IsClose(o) == o.kind = "close"
InTick(o) == o.tick = ticks
Filled(o) == o.result = DONE
Flip(d) == IF d = BUY THEN SELL ELSE BUY

\* the open orders sent so far, and those of them that were filled
OpenOrders == SelectSeq(orders, IsOpen)
FilledOpens == SelectSeq(OpenOrders, Filled)
\* the requests sent in the current tick
TickOrders == SelectSeq(orders, InTick)
TickOpens == SelectSeq(TickOrders, IsOpen)
TickCloses == SelectSeq(TickOrders, IsClose)
State == <<last_trade, last_ticket>>
\* the marker occurs in b at some offset
HasMarker(b) ==
    \E i \in 0..(Len(b) - Len(Marker)) : \A k \in 1..Len(Marker) : b[i + k] = Marker[k]

\* C1 as stated: the open orders placed have the directions BUY, SELL, BUY,
\* ... in this order, whatever became of the earlier orders.
C1_OrdersAlternate ==
    \A i \in 1..Len(OpenOrders) :
        OpenOrders[i].type = IF i % 2 = 1 THEN BUY ELSE SELL

\* C1 amended: the first open order is a BUY; an open order that follows a
\* filled one has the opposite direction and one that follows an unfilled one
\* repeats its direction; so the filled open orders alternate from BUY on.
C1_FilledAlternate ==
    /\ \A i \in 1..Len(OpenOrders) :
         OpenOrders[i].type =
            IF i = 1 THEN BUY
            ELSE IF Filled(OpenOrders[i - 1]) THEN Flip(OpenOrders[i - 1].type)
                 ELSE OpenOrders[i - 1].type
    /\ \A i \in 1..Len(FilledOpens) :
         FilledOpens[i].type = IF i % 2 = 1 THEN BUY ELSE SELL

C1_Witness ==
    /\ Len(OpenOrders) = 3
    /\ ~Filled(OpenOrders[1])
    /\ Filled(OpenOrders[2])
    /\ Filled(OpenOrders[3])
    /\ OpenOrders[3].type = SELL

\* C2: a close order that is not confirmed filled is followed by no open
\* order in its tick, and the state after that call is the state before it.
C2_CloseFailureAborts ==
    \A i \in 1..Len(orders) :
        (IsClose(orders[i]) /\ ~Filled(orders[i])) =>
            /\ \A j \in 1..Len(orders) :
                 IsOpen(orders[j]) => orders[j].tick # orders[i].tick
            /\ InTick(orders[i]) => State = pre

C2_Witness ==
    /\ pc = "sleep"
    /\ closePath = "failed"
    /\ Len(TickCloses) = 1
    /\ TickCloses[1].result = "REQUOTE"
    /\ pre[2] # NoTicket

\* C3: every open order is sent while no position is tracked, and the thread
\* is at the open order only with last_ticket cleared.
C3_OpenOnlyUntracked ==
    /\ \A i \in 1..Len(orders) : IsOpen(orders[i]) => orders[i].tracked = NoTicket
    /\ pc = "open" => last_ticket = NoTicket

C3_Witness ==
    /\ Len(TickOpens) = 1
    /\ pre[2] # NoTicket
    /\ closePath \in {"filled", "absent"}

\* C4: after the login the loop is never left because of what the mail
\* server or the platform returned.
C4_LoopNeverStops == pc # "crashed"

\* C5 as stated: an open order that is not confirmed filled leaves
\* <<lastDirection, openPositionId>> as they were when the call began.
C5_UnfilledOpenKeepsState ==
    (Len(TickOpens) = 1 /\ ~Filled(TickOpens[1])) => State = pre

\* C5 amended: an open order that is not confirmed filled leaves lastDirection
\* as it was when the call began and openPositionId None; the state equals the
\* state before the call exactly when no position was tracked then.
C5_UnfilledOpenKeepsDirection ==
    (Len(TickOpens) = 1 /\ ~Filled(TickOpens[1])) =>
        /\ last_trade = pre[1]
        /\ last_ticket = NoTicket
        /\ (State = pre) <=> (pre[2] = NoTicket)

C5_Witness ==
    /\ Len(TickOpens) = 1
    /\ TickOpens[1].result = None
    /\ pre[2] # NoTicket
    /\ closePath = "filled"

\* C6: when the tracked position is reported absent, close_last_trade clears
\* last_ticket, keeps last_trade and sends no close order, and the tick ends
\* with an open order sent.
C6_AbsentThenOpen ==
    closePath = "absent" =>
        /\ last_trade = pre[1] \/ Len(TickOpens) = 1
        /\ pc = "open" => last_ticket = NoTicket
        /\ Len(TickCloses) = 0
        /\ pc # "open" => Len(TickOpens) = 1

\* C7: a fetch that finds no unseen message or fails returns None, and a tick
\* whose fetch returned None calls neither the extractor nor place_order,
\* sends no order and leaves the state as it was.
C7_NoMailNoAction ==
    /\ mailCase \in {"empty", "failed"} => email_body.isNone
    /\ (ticks > 0 /\ email_body.isNone) =>
         /\ calls = {"check_email"}
         /\ TickOrders = << >>
         /\ State = tickStart
         /\ pc \in {"dispatch", "sleep", "fetch"}

C7_Witness ==
    /\ pc = "sleep"
    /\ mailCase = "failed"
    /\ last_ticket # NoTicket
    /\ Unseen(inbox) # {}

\* C8: a tick whose fetched body lacks the marker sends no order, leaves the
\* state as it was and goes to the sleep and on to the next tick.
C8_NoMarkerNoAction ==
    (mailCase = "body" /\ ~HasMarker(email_body.body)) =>
        /\ TickOrders = << >>
        /\ State = tickStart
        /\ "place_order" \notin calls
        /\ pc \in {"dispatch", "sleep", "fetch"}

C8_Witness ==
    /\ pc = "fetch"
    /\ mailCase = "body"
    /\ email_body.body = <<"c", "r", "o", "s", "s", "i", "n", "g">>
    /\ last_ticket # NoTicket
    /\ last_ticket \in DOMAIN positions

\* C9: with a position of direction d tracked and reported present, the open
\* order of the tick comes after the close order of that position and has the
\* direction opposite to d; with both filled the state is (opposite of d, the
\* new ticket); from (None, None) a filled first order gives (BUY, the new
\* ticket) with no close order.
C9_CloseThenOpposite ==
    Len(TickOpens) = 1 =>
        LET o == TickOpens[1] IN
        /\ closePath \in {"filled", "failed", "raised"} =>
             /\ Len(TickOrders) = 2
             /\ IsClose(TickOrders[1]) /\ TickOrders[1].position = pre[2]
             /\ TickOrders[2] = o
             /\ pre[1] \in {BUY, SELL} /\ o.type = Flip(pre[1])
             /\ TickOrders[1].type = Flip(pre[1])
             /\ (Filled(TickOrders[1]) /\ Filled(o)) =>
                   /\ State = <<Flip(pre[1]), o.order>>
                   /\ o.order \notin {NoTicket, pre[2]}
        /\ (pre = <<None, NoTicket>> /\ Filled(o)) =>
             /\ State = <<BUY, o.order>>
             /\ o.order # NoTicket
             /\ TickCloses = << >>

C9_Witness ==
    /\ Len(TickOrders) = 2
    /\ pre[1] = SELL
    /\ Filled(TickOrders[1]) /\ Filled(TickOrders[2])
    /\ State = <<BUY, 3>>

\* C10: a tick sends at most one close order and at most one open order, only
\* in a tick whose message carried the signal, and every tick that sent an
\* order consumed a message of its own.
C10_OneAttemptPerTick ==
    /\ \A t \in 1..MaxTicks :
         /\ Cardinality({i \in 1..Len(orders) : IsClose(orders[i]) /\ orders[i].tick = t}) <= 1
         /\ Cardinality({i \in 1..Len(orders) : IsOpen(orders[i]) /\ orders[i].tick = t}) <= 1
    /\ TickOrders # << >> =>
         /\ signal /\ mailCase = "body" /\ HasMarker(email_body.body)
    /\ \A i \in 1..Len(orders) : \A j \in 1..Len(orders) :
         i < j => orders[i].tick <= orders[j].tick
    /\ Cardinality({orders[i].tick : i \in 1..Len(orders)})
         <= Cardinality({i \in 1..Len(inbox) : inbox[i].seen})

C10_Witness ==
    /\ Len(orders) = 3
    /\ orders[1].result = "REJECT" /\ orders[1].tick = 1
    /\ orders[2].result = DONE /\ orders[2].tick = 2
    /\ orders[3].result = "TIMEOUT" /\ orders[3].tick = 3
    /\ orders[3].kind = "close"

\* C11: when mt5.initialize or mt5.login fails the loop never starts: no mail
\* is fetched, nothing is called, no order is sent, the state stays
\* (None, None) and the process is at its exit, where it stays; the exit is
\* reached in no other way.
C11_StartupFailureExits ==
    /\ [](mt5ok \in {"init_failed", "login_failed"} =>
            /\ pc = "exit"
            /\ ticks = 0 /\ mailCase = "idle" /\ mailConns = 0
            /\ calls = {} /\ nPlace = 0
            /\ orders = << >>
            /\ State = <<None, NoTicket>>)
    /\ [](pc = "exit" => mt5ok \in {"init_failed", "login_failed"})
    /\ [][pc = "exit" => pc' = "exit"]_vars

C11_Witness ==
    /\ mt5ok = "login_failed"
    /\ pc = "exit"
    /\ Unseen(inbox) # {}
    /\ HasMarker(inbox[1].body)

\* ------------------------------------------- the signal extractor by itself
Pad(n) == [i \in 1..n |-> "x"]

\* the marker, and bodies that come close to it without containing it
Middles == { Marker,
             << >>,
             <<"c", "r", "o", "s", "s", "i", "n", "g">>,
             <<"C", "R", "O", "S", "S", "I", "N", "G">>,
             <<"C", "r", "o", "s", "s", "i", "n">>,
             <<"r", "o", "s", "s", "i", "n", "g">>,
             <<"C", "r", "o", "s", " ", "s", "i", "n", "g">>,
             <<"C", "r", "o", "s", "C", "r", "o", "s", "s", "i", "n", "g">>,
             <<"g", "n", "i", "s", "s", "o", "r", "C">> }

SigBodies == {Pad(i) \o m \o Pad(j) : i \in 0..MaxPad, j \in 0..MaxPad, m \in Middles}

\* run_bot at line 173 of its first tick, check_email having returned b
InitSig ==
    /\ pc = "dispatch"
    /\ \E b \in SigBodies :
         /\ email_body = SomeBody(b)
         /\ inbox = <<[body |-> b, seen |-> TRUE, returned |-> 1]>>
    /\ last_trade = None
    /\ last_ticket = NoTicket
    /\ signal = FALSE
    /\ action = None
    /\ positions = << >>
    /\ nextTicket = 1
    /\ ticks = 1
    /\ orders = << >>
    /\ calls = {"check_email"}
    /\ tickStart = <<None, NoTicket>>
    /\ pre = <<None, NoTicket>>
    /\ mailCase = "body"
    /\ closePath = "idle"
    /\ mt5ok = "connected"
    /\ mailConns = 1
    /\ nPlace = 0

NextSig == Dispatch

SpecSig == InitSig /\ [][NextSig]_vars

\* C12: the extractor answers true exactly when the marker occurs in the body
\* as a contiguous run of the same letters in the same case, and applying it
\* changes neither the body nor the globals, the mailbox or the platform.
C12_SignalIffMarker ==
    /\ []((pc # "dispatch" /\ "extract_signal_from_email" \in calls) =>
            (signal <=> HasMarker(email_body.body)))
    /\ [][UNCHANGED <<email_body, last_trade, last_ticket, inbox, positions, orders>>]_vars

C12_Witness ==
    /\ pc = "close"
    /\ signal
    /\ email_body.body = Pad(1) \o Marker \o Pad(2)

Last(q) == q[Len(q)]
\* this step sent a request of the given kind and the platform answered DONE
FilledNow(kind) ==
    /\ Len(orders') = Len(orders) + 1
    /\ Last(orders').kind = kind
    /\ Last(orders').result = DONE

\* C13 as stated: the state starts as (None, None); lastDirection changes and
\* openPositionId is set only in a step with a filled open order, and
\* openPositionId is cleared only in a step with a filled close order.
C13_ChangedOnlyOnConfirmedOrder ==
    /\ State = <<None, NoTicket>>
    /\ [][/\ (last_trade' # last_trade \/ last_ticket' \notin {last_ticket, NoTicket})
               => (pc = "open" /\ FilledNow("open"))
          /\ (last_ticket' = NoTicket /\ last_ticket # NoTicket)
               => (pc = "close" /\ FilledNow("close"))]_vars

\* C13 amended: as stated, except that openPositionId is also cleared, with no
\* order sent, in the step of close_last_trade that finds the tracked position
\* reported absent.
C13_ChangedOnlyOnOrderOrAbsent ==
    /\ State = <<None, NoTicket>>
    /\ [][/\ (last_trade' # last_trade \/ last_ticket' \notin {last_ticket, NoTicket})
               => (pc = "open" /\ FilledNow("open"))
          /\ (last_ticket' = NoTicket /\ last_ticket # NoTicket)
               => /\ pc = "close"
                  /\ \/ FilledNow("close")
                     \/ closePath' = "absent" /\ orders' = orders]_vars

C13_Witness ==
    /\ pc = "open"
    /\ closePath = "absent"
    /\ pre[2] # NoTicket
    /\ last_ticket = NoTicket
    /\ TickOrders = << >>

\* C14: the close request has the side opposite to the side the platform
\* reports for the tracked position, that position's reported volume, the
\* tracked ticket, and the bid as price for a BUY position, the ask for a SELL.
C14_CloseRequestShape ==
    [][(pc = "close" /\ Len(orders') = Len(orders) + 1) =>
         LET req == Last(orders')
             p == positions[last_ticket]
         IN /\ req.kind = "close"
            /\ last_ticket # NoTicket /\ req.position = last_ticket
            /\ req.type # p.type /\ req.type \in {BUY, SELL}
            /\ req.volume = p.volume
            /\ \E q \in Quotes :
                 req.price = IF p.type = BUY THEN q.bid ELSE q.ask]_vars

C14_Witness ==
    /\ Len(orders) = 4
    /\ orders[4].kind = "close"
    /\ orders[4].type = BUY
    /\ orders[4].volume = 1
    /\ orders[4].volume # LOT_SIZE
    /\ orders[4].price = 11
    /\ orders[4].position = 2

SeenOf(box) == [i \in 1..Len(box) |-> box[i].seen]
BodyOf(box) == [i \in 1..Len(box) |-> box[i].body]

\* C15: a fetch that meets an unseen message and no failure returns the body
\* of the unseen message with the highest sequence number, sets the seen flag
\* of that message and of no other, and leaves the bodies alone; setting the
\* flag of a message that has it changes nothing.
C15_LatestUnseenReturned ==
    [][(pc = "fetch" /\ pc' = "dispatch") =>
         /\ (mailCase' = "body") <=> (Unseen(inbox) # {} /\ mailCase' # "failed")
         /\ mailCase' = "body" =>
              \E m \in 1..Len(inbox) :
                 /\ ~inbox[m].seen
                 /\ \A i \in 1..Len(inbox) : ~inbox[i].seen => i <= m
                 /\ email_body' = SomeBody(inbox[m].body)
                 /\ SeenOf(inbox') = [SeenOf(inbox) EXCEPT ![m] = TRUE]
                 /\ BodyOf(inbox') = BodyOf(inbox)
                 /\ MarkSeen(inbox', m) = inbox']_vars

C15_Witness ==
    /\ pc = "dispatch"
    /\ mailCase = "body"
    /\ Len(inbox) = 3
    /\ ~inbox[1].seen /\ ~inbox[2].seen /\ inbox[3].seen
    /\ email_body.body = inbox[3].body
    /\ inbox[3].body # inbox[2].body

\* C16: every mail connection a fetch opened has been logged out when the
\* fetch returns, so none is open between ticks.
C16_NoOpenMailConnection == mailConns = 0

\* the last call of place_order ended with a filled open order
LastAttemptFilled ==
    orders # << >> /\ IsOpen(Last(orders)) /\ Filled(Last(orders))

\* C17: the direction handed to place_order is BUY at the first signal, the
\* opposite of the previous attempt when that attempt ended with a filled open
\* order, and the direction of the previous attempt when it did not (open
\* order not filled, or close failed); a tick whose attempt was not filled
\* leaves lastDirection as it was; two filled open orders in a row differ.
C17_DirectionFollowsLastFill ==
    /\ [][(pc = "dispatch" /\ pc' = "close") =>
            action' = IF action = None THEN BUY
                      ELSE IF LastAttemptFilled THEN Flip(action) ELSE action]_vars
    /\ []((pc = "sleep" /\ "place_order" \in calls /\ ~LastAttemptFilled) =>
            (last_trade = pre[1] /\ last_trade = tickStart[1]))
    /\ [](/\ (FilledOpens # << >> => FilledOpens[1].type = BUY)
          /\ \A i \in 1..(Len(FilledOpens) - 1) :
               FilledOpens[i + 1].type # FilledOpens[i].type)

C17_Witness ==
    /\ Len(orders) = 4
    /\ IsOpen(orders[1]) /\ Filled(orders[1]) /\ orders[1].type = BUY
    /\ IsClose(orders[2]) /\ ~Filled(orders[2]) /\ orders[2].tick = 2
    /\ IsClose(orders[3]) /\ Filled(orders[3]) /\ orders[3].tick = 3
    /\ IsOpen(orders[4]) /\ orders[4].type = SELL
    /\ action = SELL

\* ------------------------------------------------- the platform left alone
\* positions_get reports a position as absent only when it is absent
ReportedTruly == closePath' = "absent" => last_ticket \notin DOMAIN positions

close_last_trade_faithful == close_last_trade /\ ReportedTruly

\* the program with a platform whose positions change through the orders of
\* the program only and whose answers are true
NextFaithful ==
    \/ Arrive
    \/ Connect
    \/ check_email
    \/ Dispatch
    \/ close_last_trade_faithful
    \/ place_order
    \/ Sleep

SpecFaithful == Init /\ [][NextFaithful]_vars

\* C18: with such a platform at most one position is open at any time, and a
\* tracked ticket names the one open position.
C18_OnePositionTracked ==
    /\ Cardinality(DOMAIN positions) <= 1
    /\ last_ticket # NoTicket => DOMAIN positions = {last_ticket}

C18_Witness ==
    /\ last_ticket = 2
    /\ DOMAIN positions = {2}
    /\ Len(orders) = 3
    /\ Filled(orders[2]) /\ orders[2].position = 1

\* C19: check_email returns a message at most once and only after it has set
\* its seen flag, so place_order is called at most once for every returned
\* message that carries the marker, whatever became of the orders.
C19_MessageReturnedOnce ==
    /\ \A i \in 1..Len(inbox) :
         /\ inbox[i].returned <= 1
         /\ inbox[i].returned = 1 => inbox[i].seen
    /\ nPlace <= Cardinality({i \in 1..Len(inbox) :
                                inbox[i].returned = 1 /\ HasMarker(inbox[i].body)})

C19_Witness ==
    /\ ticks = 3
    /\ mailCase = "empty"
    /\ Len(inbox) = 1 /\ inbox[1].returned = 1 /\ HasMarker(inbox[1].body)
    /\ nPlace = 1
    /\ Len(orders) = 1 /\ ~Filled(orders[1]) /\ orders[1].tick = 1

\* C20: a tracked ticket implies a direction, and a direction once set is
\* never None again.
C20_TicketImpliesDirection ==
    /\ [](last_ticket # NoTicket => last_trade # None)
    /\ [][last_trade # None => last_trade' # None]_vars

C20_Witness ==
    /\ last_trade = SELL
    /\ last_ticket = NoTicket
    /\ pc = "sleep"
    /\ closePath = "filled"
====
